---- MODULE Spec2Model ----
(***************************************************************************)
(* A model of the yuuko command client (src/src/Client.js): the command    *)
(* registry, the prefix resolver and the message dispatcher.               *)
(*                                                                         *)
(* JavaScript strings are sequences of one-character strings; the empty    *)
(* string is << >>.  null and undefined are the one value Null, which is   *)
(* no string because "NULL" is not a character of any modelled text.       *)
(***************************************************************************)
EXTENDS Integers, Sequences, FiniteSets, TLC

VARIABLES
    defaultPrefix,        \* Client.defaultPrefix (options.prefix)
    allowMention,         \* Client.allowMention
    ignoreBots,           \* Client.ignoreBots
    commands,             \* Client.commands: the registry, in insertion order
    mentionPrefixRegExp,  \* Client.mentionPrefixRegExp: Null until 'ready'
    app,                  \* Client.app: Null until the application info arrives
    listeners,            \* number of 'messageCreate' listeners registered
    readySignals,         \* 'ready' signals received from the transport
    pendingApp,           \* getOAuthApplication() promises not yet settled
    readyEvents,          \* 'ready' events delivered to the client's listeners
    files,                \* the command directory: file name -> what it exports
    lastCall,             \* the last synchronous registry call and its outcome
    msgs,                 \* the messages the gateway has delivered so far
    tasks,                \* handler invocations in flight
    events,               \* everything emitted or invoked by dispatch, in order
    alive,                \* FALSE once the runtime has terminated the process
    probe                 \* a direct call of splitPrefixFromContent and its result

vars == <<defaultPrefix, allowMention, ignoreBots, commands, mentionPrefixRegExp,
          app, listeners, readySignals, pendingApp, readyEvents, files, lastCall, msgs, tasks,
          events, alive, probe>>

clientVars == <<defaultPrefix, allowMention, ignoreBots>>
readyVars == <<mentionPrefixRegExp, app, listeners, readySignals, pendingApp, readyEvents>>
dispatchVars == <<msgs, tasks, events, alive>>

(***************************************************************************)
(* Bounds of the model.                                                    *)
(***************************************************************************)
MaxCommands == 3    \* registry size explored by the registry specification
MaxStartup == 3     \* commands registered before connecting
MaxMsgs == 2        \* messages delivered by the gateway
MaxReady == 2       \* 'ready' signals from the transport (connection specification)
MaxReadyMsgs == 1   \* messages delivered by the gateway (connection specification)
MaxTail == 2        \* length of the free text after a message's head
MaxTexts == 1       \* messages delivered by the gateway (content specification)

(***************************************************************************)
(* Strings.                                                                *)
(***************************************************************************)
Null == <<"NULL">>

\* String.prototype.startsWith
StartsWith(s, p) == Len(p) <= Len(s) /\ SubSeq(s, 1, Len(p)) = p

\* String.prototype.substr(n), one argument
Substr(s, n) == SubSeq(s, n + 1, Len(s))

\* The characters the RegExp class \s accepts, among those modelled.
IsSpace(c) == c \in {" ", "\t"}

\* First index at which p occurs in s, 0 when it does not.
IndexOf(s, p) ==
    LET hits == {i \in 1..(Len(s) - Len(p) + 1) : SubSeq(s, i, i + Len(p) - 1) = p}
    IN  IF hits = {} THEN 0 ELSE CHOOSE i \in hits : \A j \in hits : i <= j

\* String.prototype.split(' '): the pieces between single spaces, empty
\* pieces kept.
RECURSIVE SplitSpace(_)
SplitSpace(s) ==
    LET k == IndexOf(s, <<" ">>)
    IN  IF k = 0 THEN <<s>>
        ELSE <<SubSeq(s, 1, k - 1)>> \o SplitSpace(SubSeq(s, k + 1, Len(s)))

(***************************************************************************)
(* The bot's identity and the mention pattern.                             *)
(***************************************************************************)
UserId == <<"7">>

\* new RegExp(`^<@!?${this.user.id}>\\s?`): the pattern's source, with the
\* id between its fixed parts.
MentionRegExp(id) == <<"^<@!?">> \o id \o <<">\\s?">>

\* s.match(re)[0], or Null when there is no match.  A null pattern is
\* converted by String.prototype.match to the pattern /null/, which matches
\* the text "null" anywhere in s.
Match(s, re) ==
    IF re = Null
    THEN IF IndexOf(s, <<"n", "u", "l", "l">>) > 0 THEN <<"n", "u", "l", "l">> ELSE Null
    ELSE LET id == SubSeq(re, 2, Len(re) - 1)
             plain == <<"<", "@">> \o id \o <<">">>
             bang == <<"<", "@", "!">> \o id \o <<">">>
             m == IF StartsWith(s, bang) THEN bang
                  ELSE IF StartsWith(s, plain) THEN plain
                  ELSE Null
         IN  IF m = Null THEN Null
             ELSE IF Len(s) > Len(m) /\ IsSpace(s[Len(m) + 1])
                  THEN SubSeq(s, 1, Len(m) + 1)
                  ELSE m

(***************************************************************************)
(* Prefix resolver.                                                        *)
(***************************************************************************)
\* Faulty variant: the default prefix returned for every channel.
prefixForMessage_NoGuildCheck(msg) == defaultPrefix

prefixForMessage(msg) ==
    IF msg.guild THEN defaultPrefix ELSE << >>

\* Faulty variant: the mention rule tried before the contextual prefix.
splitPrefixFromContent_MentionFirst(msg) ==
    LET prefix == prefixForMessage(msg)
        match == Match(msg.content, mentionPrefixRegExp)
    IN  IF allowMention /\ match # Null
        THEN <<match, Substr(msg.content, Len(match))>>
        ELSE IF prefix # Null /\ StartsWith(msg.content, prefix)
        THEN <<prefix, Substr(msg.content, Len(prefix))>>
        ELSE IF ~msg.guild
        THEN << << >>, msg.content >>
        ELSE <<Null, Null>>

splitPrefixFromContent(msg) ==
    LET prefix == prefixForMessage(msg)
        match == Match(msg.content, mentionPrefixRegExp)
    IN  IF prefix # Null /\ StartsWith(msg.content, prefix)
        THEN <<prefix, Substr(msg.content, Len(prefix))>>
        ELSE IF allowMention /\ match # Null
        THEN <<match, Substr(msg.content, Len(match))>>
        ELSE IF ~msg.guild
        THEN << << >>, msg.content >>
        ELSE <<Null, Null>>

(***************************************************************************)
(* Commands.  A Command has a canonical name, aliases (strings or null)    *)
(* and, once loaded from a file, that file's name.  NoFile is the absent   *)
(* (undefined) filename.                                                   *)
(***************************************************************************)
NoFile == ""

Command(name, aliases) ==
    [kind |-> "command", name |-> name, aliases |-> aliases, filename |-> NoFile]

\* A value that is no instance of Command.
NotACommand ==
    [kind |-> "other", name |-> Null, aliases |-> << >>, filename |-> NoFile]

\* Command.names: the canonical name first, then the aliases.
names(c) == <<c.name>> \o c.aliases

NameSet(c) == {names(c)[k] : k \in 1..Len(names(c))}

CmdP == Command(<<"p">>, << >>)
CmdQ == Command(<<"q">>, <<<<"p">>>>)
CmdH == Command(<<"h">>, <<Null>>)
CmdX == Command(<<"x">>, <<<< >>>>)

CommandPool == {CmdP, CmdQ, CmdH, CmdX}

FileNames == <<"f1", "f2">>

FileSet == {FileNames[k] : k \in 1..Len(FileNames)}

FileExports == {CmdP, CmdQ, CmdH, NotACommand}

(***************************************************************************)
(* Command registry.  Each operation returns the registry it leaves, the   *)
(* commandLoaded events it emitted and the error it threw ("none" when it  *)
(* returned).                                                              *)
(***************************************************************************)
\* Index of the first command known by the name, 0 when there is none
\* (Array.prototype.find returning undefined).
commandForName(cmds, name) ==
    LET hits == {i \in 1..Len(cmds) : name \in NameSet(cmds[i])}
    IN  IF hits = {} THEN 0 ELSE CHOOSE i \in hits : \A j \in hits : i <= j

\* Faulty variant: the command pushed before the two checks.
addCommand_PushFirst(cmds, command) ==
    IF command.kind # "command"
    THEN [commands |-> Append(cmds, command), loaded |-> << >>, error |-> "TypeError"]
    ELSE IF commandForName(cmds, command.name) # 0
    THEN [commands |-> Append(cmds, command), loaded |-> << >>, error |-> "Error"]
    ELSE [commands |-> Append(cmds, command), loaded |-> <<command>>, error |-> "none"]

addCommand(cmds, command) ==
    IF command.kind # "command"
    THEN [commands |-> cmds, loaded |-> << >>, error |-> "TypeError"]
    ELSE IF commandForName(cmds, command.name) # 0
    THEN [commands |-> cmds, loaded |-> << >>, error |-> "Error"]
    ELSE [commands |-> Append(cmds, command), loaded |-> <<command>>, error |-> "none"]

\* reload(filename), then command.filename = filename, then addCommand.
addCommandFile(cmds, filename) ==
    addCommand(cmds, [files[filename] EXCEPT !.filename = filename])

\* The loop over glob.sync(dirname + '*.js'), from the k-th file on: the
\* first file that throws ends the loop.
RECURSIVE addCommandDirFrom(_, _, _)
addCommandDirFrom(cmds, k, loaded) ==
    IF k > Len(FileNames)
    THEN [commands |-> cmds, loaded |-> loaded, error |-> "none"]
    ELSE LET r == addCommandFile(cmds, FileNames[k])
         IN  IF r.error # "none"
             THEN [commands |-> r.commands, loaded |-> loaded \o r.loaded, error |-> r.error]
             ELSE addCommandDirFrom(r.commands, k + 1, loaded \o r.loaded)

addCommandDir(cmds) == addCommandDirFrom(cmds, 1, << >>)

RemoveAt(s, i) == SubSeq(s, 1, i - 1) \o SubSeq(s, i + 1, Len(s))

\* The loop of reloadCommands with i commands still to visit (the command
\* at 1-based index i is visited next, then those before it).
RECURSIVE reloadFrom(_, _, _)
reloadFrom(cmds, i, loaded) ==
    IF i = 0
    THEN [commands |-> cmds, loaded |-> loaded, error |-> "none"]
    ELSE IF cmds[i].filename # NoFile
    THEN LET r == addCommandFile(RemoveAt(cmds, i), cmds[i].filename)
         IN  IF r.error # "none"
             THEN [commands |-> r.commands, loaded |-> loaded \o r.loaded, error |-> r.error]
             ELSE reloadFrom(r.commands, i - 1, loaded \o r.loaded)
    ELSE reloadFrom(cmds, i - 1, loaded)

\* Faulty variant: the registry rebuilt from the tracked commands alone.
reloadCommands_TrackedOnly(cmds) ==
    LET tracked == SelectSeq(cmds, LAMBDA c : c.filename # NoFile)
    IN  reloadFrom(tracked, Len(tracked), << >>)

reloadCommands(cmds) == reloadFrom(cmds, Len(cmds), << >>)

\* One visit of the loop of reloadCommands to the tracked command at index
\* i: the registries after splice(i, 1) and after addCommandFile, and the
\* error that ended the visit.
\* Faulty variant: the replacement registered before the old command is
\* removed.
reloadVisit_AddFirst(cmds, i) ==
    LET r == addCommandFile(cmds, cmds[i].filename)
    IN  IF r.error # "none"
        THEN [states |-> <<cmds>>, error |-> r.error]
        ELSE [states |-> <<r.commands, RemoveAt(r.commands, i)>>, error |-> "none"]

reloadVisit(cmds, i) ==
    LET removed == RemoveAt(cmds, i)
        r == addCommandFile(removed, cmds[i].filename)
    IN  [states |-> <<removed, r.commands>>, error |-> r.error]

\* The registries the loop of reloadCommands passes through from the visit
\* of index i on, in order.
RECURSIVE reloadStatesFrom(_, _)
reloadStatesFrom(cmds, i) ==
    IF i = 0 THEN << >>
    ELSE IF cmds[i].filename # NoFile
    THEN LET v == reloadVisit(cmds, i)
         IN  IF v.error # "none" THEN v.states
             ELSE v.states \o reloadStatesFrom(v.states[Len(v.states)], i - 1)
    ELSE reloadStatesFrom(cmds, i - 1)

\* Every registry of one reloadCommands call, from the one it starts with
\* to the one it leaves.
reloadStates(cmds) == <<cmds>> \o reloadStatesFrom(cmds, Len(cmds))

NoCall == [op |-> "none", arg |-> NotACommand, error |-> "none", before |-> << >>, loaded |-> << >>]

Call(op, arg, before, r) ==
    [op |-> op, arg |-> arg, error |-> r.error, before |-> before, loaded |-> r.loaded]

(***************************************************************************)
(* The client after construction (constructor, lines 22-71), but for its   *)
(* registry, which starts empty and which each specification fills.        *)
(***************************************************************************)
Constructed(prefix, mention, bots) ==
    /\ defaultPrefix = prefix
    /\ allowMention = mention
    /\ ignoreBots = bots
    /\ mentionPrefixRegExp = Null
    /\ app = Null
    /\ listeners = 0
    /\ readySignals = 0
    /\ pendingApp = 0
    /\ readyEvents = 0
    /\ msgs = << >>
    /\ tasks = << >>
    /\ events = << >>
    /\ alive = TRUE

NoProbe == [called |-> FALSE, msg |-> [author |-> "none", guild |-> FALSE, content |-> << >>],
            result |-> <<Null, Null>>]

(***************************************************************************)
(* Registry operations as steps of the client.                             *)
(***************************************************************************)
RegistryStep(op, arg, r) ==
    /\ alive
    /\ commands' = r.commands
    /\ lastCall' = Call(op, arg, commands, r)
    /\ UNCHANGED <<clientVars, readyVars, files, dispatchVars, probe>>

AddCommand(command) ==
    /\ Len(commands) < MaxCommands
    /\ RegistryStep("addCommand", command, addCommand(commands, command))

AddCommandFile(filename) ==
    /\ Len(commands) < MaxCommands
    /\ RegistryStep("addCommandFile", files[filename], addCommandFile(commands, filename))

AddCommandDir ==
    /\ Len(commands) + Len(FileNames) <= MaxCommands
    /\ RegistryStep("addCommandDir", NotACommand, addCommandDir(commands))

ReloadCommands ==
    RegistryStep("reloadCommands", NotACommand, reloadCommands(commands))

\* A command file is rewritten on disk between two loads.
EditFile(filename, export) ==
    /\ alive
    /\ files[filename] # export
    /\ files' = [files EXCEPT ![filename] = export]
    /\ lastCall' = NoCall
    /\ UNCHANGED <<clientVars, readyVars, commands, dispatchVars, probe>>

InitRegistry ==
    /\ Constructed(<<"!">>, TRUE, TRUE)
    /\ commands = << >>
    /\ lastCall = NoCall
    /\ files \in [FileSet -> FileExports]
    /\ probe = NoProbe

NextRegistry ==
    \/ \E c \in CommandPool \cup {NotACommand} : AddCommand(c)
    \/ \E f \in FileSet : AddCommandFile(f)
    \/ AddCommandDir
    \/ ReloadCommands
    \/ \E f \in FileSet, x \in FileExports : EditFile(f, x)

SpecRegistry == InitRegistry /\ [][NextRegistry]_vars

(***************************************************************************)
(* Claims about the registry (checked under SpecRegistry).                 *)
(***************************************************************************)
AllNames(cmds) == UNION {NameSet(cmds[i]) : i \in 1..Len(cmds)}

\* C1: in every reachable state no two distinct commands of client.commands
\* have a name in common, a command's names being its canonical name and
\* all of its aliases.
C1_RegistryNamesUnique ==
    \A i, j \in 1..Len(commands) :
        i # j => NameSet(commands[i]) \cap NameSet(commands[j]) = {}

\* C2: a failing addCommand (its argument is no Command, or its name is
\* that of a registered command) throws, leaves client.commands the very
\* sequence it was and emits no commandLoaded; a succeeding one appends the
\* command at the end and emits exactly one commandLoaded, carrying it.
C2_AddCommandAllOrNothing ==
    lastCall.op = "addCommand" =>
        LET c == lastCall.arg
            before == lastCall.before
            rejected == c.kind # "command" \/ commandForName(before, c.name) # 0
        IN  /\ rejected <=> lastCall.error # "none"
            /\ rejected => commands = before /\ lastCall.loaded = << >>
            /\ ~rejected => /\ Len(commands) = Len(before) + 1
                            /\ SubSeq(commands, 1, Len(before)) = before
                            /\ commands[Len(commands)] = c
                            /\ lastCall.loaded = <<c>>

C2_Witness ==
    /\ lastCall.op = "addCommand"
    /\ lastCall.error = "Error"
    /\ Len(lastCall.before) = 2

\* Every tracked command of the registry is what its file exports now.
FilesUnchanged(cmds) ==
    \A i \in 1..Len(cmds) :
        cmds[i].filename # NoFile =>
            cmds[i] = [files[cmds[i].filename] EXCEPT !.filename = cmds[i].filename]

\* C9: when every tracked file still exports the same command definition,
\* reloadCommands returns without error, the set of names in the registry
\* is the same after as before, and each name still resolves to a command
\* of the same file (or to the same untracked command).
C9_ReloadIdempotent ==
    (lastCall.op = "reloadCommands" /\ FilesUnchanged(lastCall.before)) =>
        /\ lastCall.error = "none"
        /\ AllNames(commands) = AllNames(lastCall.before)
        /\ \A n \in AllNames(lastCall.before) :
               /\ commandForName(commands, n) # 0
               /\ commands[commandForName(commands, n)]
                      = lastCall.before[commandForName(lastCall.before, n)]

\* A file of the directory that loads and registers when taken alone, and
\* that shares no name with another file of the directory.
LoadsAlone(before, f) ==
    /\ files[f].kind = "command"
    /\ NameSet(files[f]) \cap AllNames(before) = {}
    /\ \A g \in FileSet \ {f} :
           files[g].kind = "command" => NameSet(files[f]) \cap NameSet(files[g]) = {}

\* C10: when one file of the directory fails to load or register, every
\* other file of the directory is still loaded and registered by the same
\* addCommandDir call.
C10_DirLoadIsolatesFailures ==
    lastCall.op = "addCommandDir" =>
        \A f \in FileSet :
            LoadsAlone(lastCall.before, f) =>
                \E i \in 1..Len(commands) : commands[i].filename = f

\* The commands of a registry that have no filename, in their order.
Untracked(cmds) == SelectSeq(cmds, LAMBDA c : c.filename = NoFile)

\* C15: reloadCommands, whether it returns or throws, leaves the commands
\* without a filename in the registry, the same and in the same relative
\* order, emits commandLoaded for none of them, and leaves defaultPrefix,
\* allowMention, ignoreBots and mentionPrefixRegExp as they were.
C15_ReloadFrame ==
    [][lastCall'.op = "reloadCommands" =>
          /\ Untracked(commands') = Untracked(commands)
          /\ \A i \in 1..Len(lastCall'.loaded) : lastCall'.loaded[i].filename # NoFile
          /\ UNCHANGED <<defaultPrefix, allowMention, ignoreBots, mentionPrefixRegExp>>]_vars

C15_Witness ==
    /\ lastCall.op = "reloadCommands"
    /\ Len(Untracked(lastCall.before)) = 2
    /\ lastCall.loaded # << >>
    /\ commands # lastCall.before

\* The commands of a registry loaded from the file.
TrackedBy(cmds, f) == {i \in 1..Len(cmds) : cmds[i].filename = f}

OnePerFile(cmds) == \A f \in FileSet : Cardinality(TrackedBy(cmds, f)) <= 1

\* C16: when each file is the filename of at most one registered command
\* before reloadCommands, the same is true of every registry the reload
\* passes through and of the one it leaves; and no more commands are
\* loaded than were tracked, so that none is reloaded twice in one pass.
C16_OneEntityPerFile ==
    (lastCall.op = "reloadCommands" /\ OnePerFile(lastCall.before)) =>
        LET states == reloadStates(lastCall.before)
        IN  /\ states[1] = lastCall.before
            /\ states[Len(states)] = commands
            /\ \A n \in 1..Len(states) : OnePerFile(states[n])
            /\ Len(lastCall.loaded)
                   <= Cardinality({i \in 1..Len(lastCall.before) :
                                      lastCall.before[i].filename # NoFile})

C16_Witness ==
    /\ lastCall.op = "reloadCommands"
    /\ OnePerFile(lastCall.before)
    /\ Len(lastCall.loaded) = 2
    /\ Len(reloadStates(lastCall.before)) = 5

NamesUnique(cmds) ==
    \A i, j \in 1..Len(cmds) : i # j => NameSet(cmds[i]) \cap NameSet(cmds[j]) = {}

\* C19: when reloadCommands ends, by returning or by throwing, every file
\* that a registered command was loaded from is still the file of exactly
\* one registered command; and when no file was rewritten every name that
\* resolved before the call still resolves.  (Stated for registries in
\* which no two commands share a name.)
C19_ReloadLosesNothing ==
    (lastCall.op = "reloadCommands" /\ NamesUnique(lastCall.before)) =>
        /\ \A f \in FileSet :
               TrackedBy(lastCall.before, f) # {} => Cardinality(TrackedBy(commands, f)) = 1
        /\ FilesUnchanged(lastCall.before) =>
               \A n \in AllNames(lastCall.before) : commandForName(commands, n) # 0

(***************************************************************************)
(* The 'ready' interception (emit, lines 74-94).                           *)
(***************************************************************************)
AppInfo == <<"app">>

\* Faulty variant: 'ready' not intercepted but passed to the listeners at
\* once, as every other event is.
EmitReady_PassThrough ==
    /\ alive
    /\ readySignals < MaxReady
    /\ readySignals' = readySignals + 1
    /\ readyEvents' = readyEvents + 1
    /\ events' = Append(events, [type |-> "ready", cmd |-> NotACommand, msg |-> 0,
                                   args |-> << >>, token |-> Null])
    /\ UNCHANGED <<clientVars, commands, mentionPrefixRegExp, app, listeners, pendingApp,
                   files, lastCall, msgs, tasks, alive, probe>>

\* The transport emits 'ready': the mention pattern is derived at once and
\* the application info is requested.
EmitReady ==
    /\ alive
    /\ readySignals < MaxReady
    /\ readySignals' = readySignals + 1
    /\ mentionPrefixRegExp' = MentionRegExp(UserId)
    /\ pendingApp' = pendingApp + 1
    /\ UNCHANGED <<clientVars, commands, app, listeners, readyEvents, files, lastCall,
                   dispatchVars, probe>>

\* getOAuthApplication() resolves: the info is stored, handleMessage is
\* registered for 'messageCreate' ("on") and then 'ready' is passed on to
\* the listeners ("ready").
AppInfoResolves ==
    /\ alive
    /\ pendingApp > 0
    /\ pendingApp' = pendingApp - 1
    /\ app' = AppInfo
    /\ listeners' = listeners + 1
    /\ readyEvents' = readyEvents + 1
    /\ events' = events \o
           <<[type |-> "on", cmd |-> NotACommand, msg |-> 0, args |-> << >>, token |-> Null],
             [type |-> "ready", cmd |-> NotACommand, msg |-> 0, args |-> << >>, token |-> Null]>>
    /\ UNCHANGED <<clientVars, commands, mentionPrefixRegExp, readySignals, files,
                   lastCall, msgs, tasks, alive, probe>>

\* getOAuthApplication() rejects: nothing catches it, so no listener is
\* registered and 'ready' is never passed on; the runtime either warns and
\* goes on or terminates the process.
AppInfoRejects(fatal) ==
    /\ alive
    /\ pendingApp > 0
    /\ pendingApp' = pendingApp - 1
    /\ alive' = ~fatal
    /\ UNCHANGED <<clientVars, commands, mentionPrefixRegExp, app, listeners, readySignals,
                   readyEvents, files, lastCall, msgs, tasks, events, probe>>

(***************************************************************************)
(* Message dispatcher (handleMessage, lines 100-122).                      *)
(***************************************************************************)
Ev(type, cmd, msg, args, token) ==
    [type |-> type, cmd |-> cmd, msg |-> msg, args |-> args, token |-> token]

Nothing == [events |-> << >>, tasks |-> << >>]

\* Command.execute(client, msg, args, prefix, commandName): the handler is
\* invoked with the message, the arguments and a context naming the
\* command-name token; its completion is the completion of the call.
execute(cmd, k, args, prefix, commandName, awaited) ==
    [events |-> <<Ev("invoke", cmd, k, args, commandName)>>,
     tasks |-> <<[msg |-> k, cmd |-> cmd, awaited |-> awaited]>>]

Then(a, b) == [events |-> a.events \o b.events, tasks |-> a.tasks \o b.tasks]

Emit(type, cmd, k) == [events |-> <<Ev(type, cmd, k, << >>, Null)>>, tasks |-> << >>]

\* !x for a string or null
Falsy(x) == x = Null \/ x = << >>

\* One call of handleMessage for the k-th message, up to its await: what it
\* emits and invokes, and the handler invocations it leaves in flight.
\* Faulty variant: the emit of line 119 left out.
handleMessage_NoPreCommand(msg, k) ==
    IF msg.author = "none" THEN Nothing
    ELSE IF ignoreBots /\ msg.author = "bot" THEN Nothing
    ELSE LET split == splitPrefixFromContent(msg)
             prefix == split[1]
             content == split[2]
             defaultCommand == commandForName(commands, Null)
         IN  IF Falsy(content) /\ (Falsy(prefix) \/ Match(prefix, mentionPrefixRegExp) = Null)
             THEN Nothing
             ELSE IF Falsy(content) /\ defaultCommand = 0
             THEN Nothing
             ELSE LET lone == IF Falsy(content)
                              THEN execute(commands[defaultCommand], k, << >>, prefix, Null, FALSE)
                              ELSE Nothing
                      args == SplitSpace(content)
                      commandName == Head(args)
                      command == commandForName(commands, commandName)
                  IN  IF command = 0 THEN lone
                      ELSE Then(lone,
                                execute(commands[command], k, Tail(args), prefix,
                                        commandName, TRUE))

\* Faulty variant: the return of line 117 left out, so that preCommand is
\* emitted for a command that was not found.
handleMessage_NoFoundCheck(msg, k) ==
    IF msg.author = "none" THEN Nothing
    ELSE IF ignoreBots /\ msg.author = "bot" THEN Nothing
    ELSE LET split == splitPrefixFromContent(msg)
             prefix == split[1]
             content == split[2]
             defaultCommand == commandForName(commands, Null)
         IN  IF Falsy(content) /\ (Falsy(prefix) \/ Match(prefix, mentionPrefixRegExp) = Null)
             THEN Nothing
             ELSE IF Falsy(content) /\ defaultCommand = 0
             THEN Nothing
             ELSE LET lone == IF Falsy(content)
                              THEN execute(commands[defaultCommand], k, << >>, prefix, Null, FALSE)
                              ELSE Nothing
                      args == SplitSpace(content)
                      commandName == Head(args)
                      command == commandForName(commands, commandName)
                  IN  IF command = 0 THEN Then(lone, Emit("preCommand", NotACommand, k))
                      ELSE Then(lone,
                           Then(Emit("preCommand", commands[command], k),
                                execute(commands[command], k, Tail(args), prefix,
                                        commandName, TRUE)))

\* Faulty variant: the bot check of line 104 left out.
handleMessage_NoBotCheck(msg, k) ==
    IF msg.author = "none" THEN Nothing
    ELSE LET split == splitPrefixFromContent(msg)
             prefix == split[1]
             content == split[2]
             defaultCommand == commandForName(commands, Null)
         IN  IF Falsy(content) /\ (Falsy(prefix) \/ Match(prefix, mentionPrefixRegExp) = Null)
             THEN Nothing
             ELSE IF Falsy(content) /\ defaultCommand = 0
             THEN Nothing
             ELSE LET lone == IF Falsy(content)
                              THEN execute(commands[defaultCommand], k, << >>, prefix, Null, FALSE)
                              ELSE Nothing
                      args == SplitSpace(content)
                      commandName == Head(args)
                      command == commandForName(commands, commandName)
                  IN  IF command = 0 THEN lone
                      ELSE Then(lone,
                           Then(Emit("preCommand", commands[command], k),
                                execute(commands[command], k, Tail(args), prefix,
                                        commandName, TRUE)))

handleMessage(msg, k) ==
    IF msg.author = "none" THEN Nothing
    ELSE IF ignoreBots /\ msg.author = "bot" THEN Nothing
    ELSE LET split == splitPrefixFromContent(msg)
             prefix == split[1]
             content == split[2]
             defaultCommand == commandForName(commands, Null)
         IN  IF Falsy(content) /\ (Falsy(prefix) \/ Match(prefix, mentionPrefixRegExp) = Null)
             THEN Nothing
             ELSE IF Falsy(content) /\ defaultCommand = 0
             THEN Nothing
             ELSE LET lone == IF Falsy(content)
                              THEN execute(commands[defaultCommand], k, << >>, prefix, Null, FALSE)
                              ELSE Nothing
                      args == SplitSpace(content)
                      commandName == Head(args)
                      command == commandForName(commands, commandName)
                  IN  IF command = 0 THEN lone
                      ELSE Then(lone,
                           Then(Emit("preCommand", commands[command], k),
                                execute(commands[command], k, Tail(args), prefix,
                                        commandName, TRUE)))

RECURSIVE Times(_, _)
Times(r, n) == IF n = 0 THEN Nothing ELSE Then(r, Times(r, n - 1))

\* The gateway emits 'messageCreate': every registered listener, each one
\* handleMessage, runs in turn up to its await ("call" marks each run).
\* max bounds the messages a specification lets the gateway deliver.
MessageCreateWithin(msg, max) ==
    /\ alive
    /\ Len(msgs) < max
    /\ LET k == Len(msgs) + 1
           r == Times(Then(Emit("call", NotACommand, k), handleMessage(msg, k)), listeners)
       IN  /\ msgs' = Append(msgs, msg)
           /\ events' = events \o r.events
           /\ tasks' = tasks \o r.tasks
    /\ UNCHANGED <<clientVars, readyVars, commands, files, lastCall, alive, probe>>

MessageCreate(msg) == MessageCreateWithin(msg, MaxMsgs)

\* Faulty variant: the invocations serialized, so that a handler completes
\* only once those started before it have.
HandlerReturns_InOrder(i) ==
    /\ alive
    /\ i = 1
    /\ i \in 1..Len(tasks)
    /\ LET t == tasks[i]
       IN  events' = events
                \o <<[type |-> "return", cmd |-> t.cmd, msg |-> t.msg, args |-> << >>,
                      token |-> Null]>>
                \o (IF t.awaited
                    THEN <<[type |-> "command", cmd |-> t.cmd, msg |-> t.msg, args |-> << >>,
                            token |-> Null]>>
                    ELSE << >>)
    /\ tasks' = SubSeq(tasks, 2, Len(tasks))
    /\ UNCHANGED <<clientVars, readyVars, commands, files, lastCall, msgs, alive, probe>>

\* The handler of the i-th invocation in flight completes; an awaited one
\* resumes handleMessage, which emits 'command'.
HandlerReturns(i) ==
    /\ alive
    /\ i \in 1..Len(tasks)
    /\ LET t == tasks[i]
       IN  events' = events
                \o <<Ev("return", t.cmd, t.msg, << >>, Null)>>
                \o (IF t.awaited THEN <<Ev("command", t.cmd, t.msg, << >>, Null)>> ELSE << >>)
    /\ tasks' = RemoveAt(tasks, i)
    /\ UNCHANGED <<clientVars, readyVars, commands, files, lastCall, msgs, alive, probe>>

\* The handler of the i-th invocation in flight raises.  Nothing catches
\* it: the promise of handleMessage (or, for the lone-mention call, of
\* execute) is rejected with no handler attached, and the runtime either
\* warns and goes on or terminates the process (Node, asked for in version
\* 8 or higher, terminates by default from version 15 on).
HandlerThrows(i, fatal) ==
    /\ alive
    /\ i \in 1..Len(tasks)
    /\ LET t == tasks[i]
       IN  events' = events
                \o <<Ev("raise", t.cmd, t.msg, << >>, Null),
                     Ev("unhandledRejection", t.cmd, t.msg, << >>, Null)>>
    /\ tasks' = RemoveAt(tasks, i)
    /\ alive' = ~fatal
    /\ UNCHANGED <<clientVars, readyVars, commands, files, lastCall, msgs, probe>>

(***************************************************************************)
(* The dispatch specification: a client constructed with any options, its  *)
(* commands registered before it connected (index: addCommandDir(...)      *)
(* then connect()), and its first 'ready' completed; then the messages the *)
(* gateway delivers and the handlers they start.                           *)
(***************************************************************************)
Prefixes == {<<"!">>, << >>}

\* The commands the start-up script registers, in its order.
StartupOrder == <<CmdP, CmdH, CmdX>>

RECURSIVE Startup(_)
Startup(adds) ==
    IF adds = << >> THEN << >>
    ELSE addCommand(Startup(SubSeq(adds, 1, Len(adds) - 1)), adds[Len(adds)]).commands

\* The registries the script leaves when it registers the first n of them.
StartupRegistries ==
    {Startup(SubSeq(StartupOrder, 1, n)) :
        n \in {m \in 0..MaxStartup : m <= Len(StartupOrder)}}

Mention == <<"<", "@">> \o UserId \o <<">">>

Contents ==
    { <<"!", "p", " ", "a">>,
      <<"!", "z">>,
      Mention,
      Mention \o <<" ", "p">>,
      <<"p">> }

Messages ==
    [author : {"user"}, guild : BOOLEAN, content : Contents]
        \cup [author : {"bot", "none"}, guild : {TRUE}, content : {<<"!", "p", " ", "a">>}]

\* The client once EmitReady and AppInfoResolves have run on a constructed
\* client; the log of events starts there.
Connected(prefix, mention, bots) ==
    /\ defaultPrefix = prefix
    /\ allowMention = mention
    /\ ignoreBots = bots
    /\ mentionPrefixRegExp = MentionRegExp(UserId)
    /\ app = AppInfo
    /\ listeners = 1
    /\ readySignals = 1
    /\ pendingApp = 0
    /\ readyEvents = 1
    /\ msgs = << >>
    /\ tasks = << >>
    /\ events = << >>
    /\ alive = TRUE

Init ==
    /\ \E prefix \in Prefixes, mention \in BOOLEAN, bots \in BOOLEAN :
           Connected(prefix, mention, bots)
    /\ commands \in StartupRegistries
    /\ lastCall = NoCall
    /\ files = [f \in FileSet |-> NotACommand]
    /\ probe = NoProbe

Next ==
    \/ \E msg \in Messages : MessageCreate(msg)
    \/ \E i \in 1..Len(tasks) : HandlerReturns(i)
    \/ \E i \in 1..Len(tasks), fatal \in BOOLEAN : HandlerThrows(i, fatal)

Spec == Init /\ [][Next]_vars

(***************************************************************************)
(* The content specification: the same client, and one message of any      *)
(* author, channel kind and text among texts with no, one or several       *)
(* whitespace characters after the prefix and between the tokens.          *)
(***************************************************************************)
TextContents ==
    { << >>,
      <<"p">>,
      <<"p", " ", "a">>,
      <<"!">>,
      <<"!", " ">>,
      <<"!", " ", " ">>,
      <<"!", "z">>,
      <<"!", "p">>,
      <<"!", "p", " ">>,
      <<"!", "p", " ", "a">>,
      <<"!", "p", " ", "a", " ", "b">>,
      <<"!", "p", " ", " ", "a">>,
      <<"!", "p", " ", "a", " ", " ", "b">>,
      Mention,
      Mention \o <<" ">>,
      Mention \o <<"\t">>,
      Mention \o <<" ", " ">>,
      Mention \o <<" ", "p">>,
      Mention \o <<" ", " ", "p">>,
      Mention \o <<" ", "p", " ", "a">> }

TextMessages == [author : {"user", "bot", "none"}, guild : BOOLEAN, content : TextContents]

NextContent ==
    \/ \E msg \in TextMessages : MessageCreateWithin(msg, MaxTexts)
    \/ \E i \in 1..Len(tasks) : HandlerReturns(i)
    \/ \E i \in 1..Len(tasks), fatal \in BOOLEAN : HandlerThrows(i, fatal)

SpecContent == Init /\ [][NextContent]_vars

(***************************************************************************)
(* The connection specification: a constructed client, the transport's     *)
(* 'ready' signals (the first connection and reconnections) and messages   *)
(* delivered before, between and after them.                               *)
(***************************************************************************)
ReadyMessages ==
    {[author |-> "user", guild |-> TRUE, content |-> c] :
        c \in {<<"!", "p", " ", "a">>, <<"!", "z">>, Mention, Mention \o <<" ", "p">>}}

InitReady ==
    /\ Constructed(<<"!">>, TRUE, TRUE)
    /\ commands = Startup(SubSeq(StartupOrder, 1, 2))
    /\ lastCall = NoCall
    /\ files = [f \in FileSet |-> NotACommand]
    /\ probe = NoProbe

NextReady ==
    \/ EmitReady
    \/ AppInfoResolves
    \/ \E fatal \in BOOLEAN : AppInfoRejects(fatal)
    \/ \E msg \in ReadyMessages : MessageCreateWithin(msg, MaxReadyMsgs)
    \/ \E i \in 1..Len(tasks) : HandlerReturns(i)
    \/ \E i \in 1..Len(tasks), fatal \in BOOLEAN : HandlerThrows(i, fatal)

SpecReady == InitReady /\ [][NextReady]_vars

(***************************************************************************)
(* The prefix specification: splitPrefixFromContent called on any message  *)
(* of a bounded shape, for any options, before or after 'ready'.           *)
(***************************************************************************)
TailChars == {"p", " ", "!"}

Tails == UNION {[1..n -> TailChars] : n \in 0..MaxTail}

Heads ==
    { << >>, <<"!">>, Mention, <<"<", "@", "!">> \o UserId \o <<">">>,
      <<"<", "@", "8", ">">>, <<"<", "@">> \o UserId }

ProbeMessages ==
    {[author |-> "user", guild |-> g, content |-> h \o t] :
        g \in BOOLEAN, h \in Heads, t \in Tails}

CallSplitPrefix ==
    /\ ~probe.called
    /\ probe' = [probe EXCEPT !.called = TRUE, !.result = splitPrefixFromContent(probe.msg)]
    /\ UNCHANGED <<clientVars, readyVars, commands, files, lastCall, dispatchVars>>

InitPrefix ==
    /\ defaultPrefix \in Prefixes \cup {Null}
    /\ allowMention \in BOOLEAN
    /\ ignoreBots = TRUE
    /\ commands = << >>
    /\ mentionPrefixRegExp \in {Null, MentionRegExp(UserId)}
    /\ app = (IF mentionPrefixRegExp = Null THEN Null ELSE AppInfo)
    /\ listeners = (IF mentionPrefixRegExp = Null THEN 0 ELSE 1)
    /\ readySignals = listeners
    /\ pendingApp = 0
    /\ readyEvents = listeners
    /\ files = [f \in FileSet |-> NotACommand]
    /\ lastCall = NoCall
    /\ msgs = << >>
    /\ tasks = << >>
    /\ events = << >>
    /\ alive = TRUE
    /\ \E m \in ProbeMessages : probe = [called |-> FALSE, msg |-> m, result |-> <<Null, Null>>]

NextPrefix == CallSplitPrefix

SpecPrefix == InitPrefix /\ [][NextPrefix]_vars

(***************************************************************************)
(* Claims about the dispatcher (checked under Spec).                       *)
(***************************************************************************)
EventsOf(type, k) == {i \in 1..Len(events) : events[i].type = type /\ events[i].msg = k}

Raised == {i \in 1..Len(events) : events[i].type = "raise"}

\* C3: a handler's failure is caught inside handleMessage and surfaced by
\* an 'error' event of the client; it does not escape as an unhandled
\* rejection.
C3_HandlerErrorSurfaced ==
    /\ \A i \in Raised :
           \E j \in (i + 1)..Len(events) :
               events[j].type = "error" /\ events[j].msg = events[i].msg
    /\ \A i \in 1..Len(events) : events[i].type # "unhandledRejection"

\* The command handleMessage dispatches a message to by name, 0 when there
\* is none: the author is there and not an ignored bot, a prefix is
\* recognized, text follows it, and its first token names a command.
NamedCommand(msg) ==
    LET split == splitPrefixFromContent(msg)
    IN  IF msg.author = "none" \/ (ignoreBots /\ msg.author = "bot") THEN 0
        ELSE IF split[1] = Null \/ Falsy(split[2]) THEN 0
        ELSE commandForName(commands, Head(SplitSpace(split[2])))

\* Every run of handleMessage for a message that names a command has
\* emitted preCommand and invoked the handler.
DispatchedNormally ==
    \A k \in 1..Len(msgs) :
        NamedCommand(msgs[k]) # 0 =>
            /\ Cardinality(EventsOf("preCommand", k)) = Cardinality(EventsOf("call", k))
            /\ Cardinality(EventsOf("invoke", k)) = Cardinality(EventsOf("call", k))

\* C4: once the handler run for a message has raised, the dispatcher still
\* runs and dispatches the messages that follow normally, each with its
\* preCommand event and its handler invocation.
C4_FailureIsolation ==
    Raised # {} => alive /\ DispatchedNormally

\* C5: for a message whose first token names a registered command,
\* preCommand(command, msg) is emitted just before the handler is invoked
\* and cannot be skipped; command(command, msg) is emitted only once that
\* handler has completed, and carries the same command and message.
C5_LifecycleOrder ==
    /\ DispatchedNormally
    /\ \A i \in 1..Len(events) :
           (events[i].type = "invoke" /\ events[i].token # Null) =>
               /\ i > 1
               /\ events[i - 1].type = "preCommand"
               /\ events[i - 1].cmd = events[i].cmd
               /\ events[i - 1].msg = events[i].msg
    /\ \A j \in 1..Len(events) :
           events[j].type = "command" =>
               /\ j > 1
               /\ events[j - 1].type = "return"
               /\ events[j - 1].cmd = events[j].cmd
               /\ events[j - 1].msg = events[j].msg
               /\ \E i \in 1..(j - 1) :
                      /\ events[i].type = "preCommand"
                      /\ events[i].cmd = events[j].cmd
                      /\ events[i].msg = events[j].msg
    /\ \A k \in 1..Len(msgs) :
           Cardinality(EventsOf("command", k)) <= Cardinality(EventsOf("preCommand", k))

C5_Witness ==
    \E k \in 1..Len(msgs) :
        /\ NamedCommand(msgs[k]) # 0
        /\ EventsOf("command", k) # {}

\* A message with a recognized prefix whose first token after it names no
\* registered command.
NotFound(msg) ==
    LET split == splitPrefixFromContent(msg)
    IN  /\ msg.author # "none"
        /\ ~(ignoreBots /\ msg.author = "bot")
        /\ split[1] # Null
        /\ ~Falsy(split[2])
        /\ commandForName(commands, Head(SplitSpace(split[2]))) = 0

\* C6: the delivery of a message that carries a recognized prefix but whose
\* first token names no registered command invokes no handler, emits
\* neither preCommand nor command, and leaves the registry as it was.
C6_NotFoundIsNoOp ==
    [][(Len(msgs') = Len(msgs) + 1 /\ NotFound(msgs'[Len(msgs')])) =>
          /\ commands' = commands
          /\ tasks' = tasks
          /\ \A i \in (Len(events) + 1)..Len(events') : events'[i].type = "call"]_vars

C6_Witness ==
    \E k \in 1..Len(msgs) : NotFound(msgs[k]) /\ EventsOf("call", k) # {}

\* A guild message that is exactly a mention of the bot, resolved through
\* the mention prefix.
LoneMention(msg) ==
    /\ msg.author = "user"
    /\ msg.guild
    /\ msg.content = Mention
    /\ allowMention
    /\ mentionPrefixRegExp # Null
    /\ splitPrefixFromContent(msg) = <<Mention, << >> >>

\* C8: for a guild message that is exactly a mention of the bot, each run
\* of handleMessage invokes the sentinel command once, with no arguments
\* and a null command-name token, and invokes no other command's handler;
\* with no sentinel command registered it invokes nothing.
C8_LoneMentionDispatch ==
    \A k \in 1..Len(msgs) :
        LoneMention(msgs[k]) =>
            LET sentinel == commandForName(commands, Null)
            IN  IF sentinel = 0
                THEN EventsOf("invoke", k) = {}
                ELSE /\ Cardinality(EventsOf("invoke", k)) = Cardinality(EventsOf("call", k))
                     /\ \A i \in EventsOf("invoke", k) :
                            /\ events[i].cmd = commands[sentinel]
                            /\ events[i].args = << >>
                            /\ events[i].token = Null

\* C17: a handler in flight blocks nothing but its own completion: every
\* message that names a command gets its preCommand event and its handler
\* invocation whatever is in flight, every invocation in flight can
\* complete whatever the others do, and a command event is withheld only
\* from an invocation that has not completed.
C17_HungHandlerIsolation ==
    /\ DispatchedNormally
    /\ alive => \A i \in 1..Len(tasks) : ENABLED HandlerReturns(i)
    /\ \A k \in 1..Len(msgs) :
           Cardinality(EventsOf("command", k)) + Cardinality({i \in 1..Len(tasks) :
                                                    tasks[i].msg = k /\ tasks[i].awaited})
               + Cardinality(EventsOf("raise", k))
               >= Cardinality(EventsOf("preCommand", k))

\* The handler of the first message is still in flight, the second message
\* was dispatched after it and its command event is already emitted.
C17_Witness ==
    /\ Len(msgs) = 2
    /\ NamedCommand(msgs[1]) # 0
    /\ NamedCommand(msgs[2]) # 0
    /\ \E i \in 1..Len(tasks) : tasks[i].msg = 1 /\ tasks[i].awaited
    /\ EventsOf("command", 1) = {}
    /\ EventsOf("preCommand", 2) # {}
    /\ EventsOf("invoke", 2) # {}
    /\ EventsOf("command", 2) # {}

\* C20: every handler invocation made by handleMessage, that of the
\* sentinel command for a lone mention included, comes right after a
\* preCommand event for the same command and message, is awaited, and is
\* followed on its completion by a command event for that command and
\* message.
C20_InvocationObservable ==
    /\ \A i \in 1..Len(events) :
           events[i].type = "invoke" =>
               /\ i > 1
               /\ events[i - 1].type = "preCommand"
               /\ events[i - 1].cmd = events[i].cmd
               /\ events[i - 1].msg = events[i].msg
    /\ \A i \in 1..Len(tasks) : tasks[i].awaited
    /\ \A i \in 1..Len(events) :
           events[i].type = "return" =>
               /\ i < Len(events)
               /\ events[i + 1].type = "command"
               /\ events[i + 1].cmd = events[i].cmd
               /\ events[i + 1].msg = events[i].msg

(***************************************************************************)
(* Claim about the prefix resolver (checked under SpecPrefix).             *)
(***************************************************************************)
\* The mention of the bot that s starts with, with the one whitespace
\* character after it when there is one; Null when s starts with none.
LeadingMention(s) ==
    LET texts == {Mention, <<"<", "@", "!">> \o UserId \o <<">">>}
        found == {m \in texts : StartsWith(s, m)}
        m == CHOOSE x \in found : TRUE
    IN  IF found = {} THEN Null
        ELSE IF Len(s) > Len(m) /\ IsSpace(s[Len(m) + 1]) THEN SubSeq(s, 1, Len(m) + 1)
        ELSE m

\* The priority order of the claim.
ResolvedPrefix(msg) ==
    LET contextual == IF msg.guild THEN defaultPrefix ELSE << >>
        mention == LeadingMention(msg.content)
    IN  IF contextual # Null /\ StartsWith(msg.content, contextual)
        THEN <<contextual, SubSeq(msg.content, Len(contextual) + 1, Len(msg.content))>>
        ELSE IF allowMention /\ mention # Null
        THEN <<mention, SubSeq(msg.content, Len(mention) + 1, Len(msg.content))>>
        ELSE IF ~msg.guild THEN << << >>, msg.content >>
        ELSE <<Null, Null>>

\* C7: once the mention pattern is resolved, splitPrefixFromContent follows
\* the priority order contextual prefix, then mention, then direct message,
\* then (null, null).  With defaultPrefix "!": guild "!p" gives ("!", "p"),
\* direct message "p" gives ("", "p"), guild "p" gives (null, null); with
\* allowMention false a guild message starting with a mention gives
\* (null, null).
C7_PrefixPriority ==
    (probe.called /\ mentionPrefixRegExp # Null) =>
        LET msg == probe.msg
        IN  /\ probe.result = ResolvedPrefix(msg)
            /\ (defaultPrefix = <<"!">> /\ msg.guild /\ msg.content = <<"!", "p">>)
                   => probe.result = << <<"!">>, <<"p">> >>
            /\ (defaultPrefix = <<"!">> /\ ~msg.guild /\ msg.content = <<"p">>)
                   => probe.result = << << >>, <<"p">> >>
            /\ (defaultPrefix = <<"!">> /\ msg.guild /\ msg.content = <<"p">>)
                   => probe.result = <<Null, Null>>
            /\ (defaultPrefix = <<"!">> /\ msg.guild /\ ~allowMention
                    /\ LeadingMention(msg.content) # Null)
                   => probe.result = <<Null, Null>>

C7_Witness ==
    /\ probe.called
    /\ mentionPrefixRegExp # Null
    /\ allowMention
    /\ probe.msg.guild
    /\ defaultPrefix = <<"!">>
    /\ probe.msg.content = Mention \o <<" ", "p">>
    /\ probe.result = <<Mention \o <<" ">>, <<"p">> >>

(***************************************************************************)
(* Claims about the ignore rules and the text after the prefix (checked    *)
(* under SpecContent).                                                     *)
(***************************************************************************)
Ignored(msg) == msg.author = "none" \/ (ignoreBots /\ msg.author = "bot")

\* What the listeners emit and start for the k-th message.
Delivery(msg, k) ==
    Times(Then(Emit("call", NotACommand, k), handleMessage(msg, k)), listeners)

\* C11: a message with no author, and with ignoreBots a message of a bot,
\* invokes no handler and emits neither preCommand nor command, whatever
\* its content and the registry; with ignoreBots false the delivery of a
\* bot's message emits and starts what the same message of a user does.
C11_IgnoreRules ==
    /\ [](\A k \in 1..Len(msgs) :
             Ignored(msgs[k]) =>
                 /\ EventsOf("preCommand", k) = {}
                 /\ EventsOf("invoke", k) = {}
                 /\ EventsOf("command", k) = {}
                 /\ \A i \in 1..Len(tasks) : tasks[i].msg # k)
    /\ [][Len(msgs') = Len(msgs) + 1 =>
            LET msg == msgs'[Len(msgs')]
                asUser == Delivery([msg EXCEPT !.author = "user"], Len(msgs'))
            IN  (msg.author = "bot" /\ ~ignoreBots) =>
                    /\ events' = events \o asUser.events
                    /\ tasks' = tasks \o asUser.tasks]_vars

C11_Witness ==
    \E k \in 1..Len(msgs) :
        /\ msgs[k].author = "bot"
        /\ ignoreBots
        /\ NamedCommand([msgs[k] EXCEPT !.author = "user"]) # 0
        /\ EventsOf("call", k) # {}

WhitespaceOnly(s) == \A i \in 1..Len(s) : IsSpace(s[i])

\* A guild message of a user that is a mention of the bot followed by
\* nothing but whitespace, where the mention is the prefix that applies.
MentionThenSpace(msg) ==
    /\ msg.author = "user"
    /\ msg.guild
    /\ allowMention
    /\ defaultPrefix # << >>
    /\ StartsWith(msg.content, Mention)
    /\ WhitespaceOnly(Substr(msg.content, Len(Mention)))

\* A guild message of a user that is the (non-empty) default prefix
\* followed by nothing but whitespace.
PrefixThenSpace(msg) ==
    /\ msg.author = "user"
    /\ msg.guild
    /\ defaultPrefix # << >>
    /\ StartsWith(msg.content, defaultPrefix)
    /\ WhitespaceOnly(Substr(msg.content, Len(defaultPrefix)))

\* C13: a remainder of whitespace only is treated like an empty one: each
\* run of handleMessage for a mention followed by whitespace only invokes
\* the sentinel command, when one is registered, with no arguments and a
\* null command-name token; for the default prefix followed by whitespace
\* only nothing is invoked and no preCommand is emitted.
C13_WhitespaceRemainder ==
    \A k \in 1..Len(msgs) :
        /\ MentionThenSpace(msgs[k]) =>
               LET sentinel == commandForName(commands, Null)
                   bare == {i \in EventsOf("invoke", k) :
                               /\ events[i].cmd = commands[sentinel]
                               /\ events[i].args = << >>
                               /\ events[i].token = Null}
               IN  sentinel # 0 => Cardinality(bare) = Cardinality(EventsOf("call", k))
        /\ PrefixThenSpace(msgs[k]) =>
               /\ EventsOf("invoke", k) = {}
               /\ EventsOf("preCommand", k) = {}

\* The whitespace-separated tokens of s, in order: the maximal runs of
\* characters that are no whitespace.
RECURSIVE Tokens(_)
Tokens(s) ==
    IF s = << >> THEN << >>
    ELSE IF IsSpace(Head(s)) THEN Tokens(Tail(s))
    ELSE LET spaces == {i \in 1..Len(s) : IsSpace(s[i])}
             end == IF spaces = {} THEN Len(s) + 1
                    ELSE CHOOSE i \in spaces : \A j \in spaces : i <= j
         IN  <<SubSeq(s, 1, end - 1)>> \o Tokens(SubSeq(s, end, Len(s)))

\* C14: every handler invoked for a message with text after its prefix
\* receives, as command-name token, the first whitespace-separated token
\* of that text, which is a name of the command, and as arguments the
\* tokens after it in their order; no argument is the empty string.
C14_ArgumentSplitting ==
    \A i \in 1..Len(events) :
        (/\ events[i].type = "invoke"
         /\ events[i].token # Null
         /\ ~Falsy(splitPrefixFromContent(msgs[events[i].msg])[2])) =>
            LET tokens == Tokens(splitPrefixFromContent(msgs[events[i].msg])[2])
            IN  /\ tokens # << >>
                /\ events[i].token = Head(tokens)
                /\ events[i].token \in NameSet(events[i].cmd)
                /\ events[i].args = Tail(tokens)
                /\ \A a \in 1..Len(events[i].args) : events[i].args[a] # << >>

\* C21: for a direct message, whatever its content and allowMention,
\* splitPrefixFromContent gives the empty prefix and the whole content; so
\* no run of handleMessage for a direct message invokes the sentinel
\* command by the bare-mention path, and a handler invoked for a direct
\* message was named by the first piece of the whole content, which for a
\* message starting with a mention is the mention text itself.
C21_DirectMessageNoMention ==
    \A k \in 1..Len(msgs) :
        ~msgs[k].guild =>
            /\ splitPrefixFromContent(msgs[k]) = << << >>, msgs[k].content >>
            /\ \A i \in EventsOf("invoke", k) :
                   /\ events[i].token # Null
                   /\ events[i].token = Head(SplitSpace(msgs[k].content))
                   /\ StartsWith(msgs[k].content, Mention) => StartsWith(events[i].token, Mention)
            /\ msgs[k].content = Mention => EventsOf("invoke", k) = {}

\* A user's direct message that is exactly a mention of the bot was run
\* through handleMessage, with mentions allowed and a sentinel command
\* registered.
C21_Witness ==
    \E k \in 1..Len(msgs) :
        /\ ~msgs[k].guild
        /\ msgs[k].author = "user"
        /\ msgs[k].content = Mention
        /\ allowMention
        /\ commandForName(commands, Null) # 0
        /\ EventsOf("call", k) # {}

(***************************************************************************)
(* Claims about the connection (checked under SpecReady).                  *)
(***************************************************************************)
TypesAt(type) == {i \in 1..Len(events) : events[i].type = type}

\* C12: 'ready' reaches the client's listeners only once the mention
\* pattern is derived and the application info stored, and after the
\* message handler was registered; while mentionPrefixRegExp is null no
\* message is dispatched; and a 'messageCreate' event is passed to every
\* registered listener, once each.
C12_ReadyGating ==
    /\ [](/\ Cardinality(TypesAt("ready")) = readyEvents
          /\ readyEvents > 0 =>
                 /\ mentionPrefixRegExp = MentionRegExp(UserId)
                 /\ app = AppInfo
          /\ \A i \in TypesAt("ready") :
                 Cardinality({j \in TypesAt("on") : j < i}) = Cardinality({j \in TypesAt("ready") : j <= i})
          /\ listeners = Cardinality(TypesAt("on"))
          /\ mentionPrefixRegExp = Null => events = << >> /\ tasks = << >>)
    /\ [][Len(msgs') = Len(msgs) + 1 =>
            LET new == {i \in (Len(events) + 1)..Len(events') : events'[i].type = "call"}
            IN  /\ Cardinality(new) = listeners
                /\ \A i \in new : events'[i].msg = Len(msgs')]_vars

\* A message that named a command arrived before the handler was
\* registered and was not dispatched; 'ready' was delivered afterwards.
C12_Witness ==
    /\ readyEvents > 0
    /\ \E k \in 1..Len(msgs) :
           /\ commandForName(commands, <<"p">>) # 0
           /\ msgs[k].content = <<"!", "p", " ", "a">>
           /\ EventsOf("call", k) = {}

\* C18: whatever the number of 'ready' signals and completed application
\* info fetches before it, a delivered message that names a registered
\* command is handled once: one preCommand event, one handler invocation
\* and, once the handler has completed, one command event.
C18_DispatchedOnce ==
    \A k \in 1..Len(msgs) :
        (NamedCommand(msgs[k]) # 0 /\ EventsOf("call", k) # {}) =>
            /\ Cardinality(EventsOf("call", k)) = 1
            /\ Cardinality(EventsOf("preCommand", k)) = 1
            /\ Cardinality(EventsOf("invoke", k)) = 1
            /\ Cardinality(EventsOf("command", k)) <= 1
            /\ Cardinality(EventsOf("command", k)) = Cardinality(EventsOf("return", k))

====
